---- MODULE Spec2Model ----
(***************************************************************************)
(* Hearthstone deckstrings (schmich/deckstrings): the varint stream of     *)
(* varint.go and the Decode / Encode pair of deckstrings.go.               *)
(*                                                                         *)
(* A deckstring is modelled by the byte stream that the base64 text        *)
(* frames: `stream' is what the varintReader reads byte by byte and what   *)
(* the varintWriter has written when Encode returns.  A Deck is a record   *)
(* [format, heroes, cards], a card the pair <<dbfID, count>>.              *)
(***************************************************************************)
EXTENDS Integers, Sequences, FiniteSets, TLC

VARIABLES pc, stream, deck, dec, enc, deck2, enc2, vs, pieces, rd

vars == <<pc, stream, deck, dec, enc, deck2, enc2, vs, pieces, rd>>

(***************************************************************************)
(* Program constants.                                                      *)
(***************************************************************************)
Version == 1
FormatWild == 1
FormatStandard == 2
MaxVarintLen64 == 10

(***************************************************************************)
(* Bounds of the model.                                                    *)
(***************************************************************************)
\* longest arbitrary byte stream handed to Decode
MaxRawLen == 5
\* longest arbitrary tail after a well-formed <<reserved, version, format>>
MaxBodyLen == 7
\* longest varint (in bytes) occurring in an arbitrary input stream
MaxVarintBytes == 3
\* longest arbitrary tail after a hero count no slice can have
MaxTailLen == 2
\* most heroes / cards of a Deck handed to Encode
MaxHeroes == 2
MaxCards == 2
\* the longest sequence of values given to WriteMany
MaxValues == 3

(***************************************************************************)
(* uint64.  A value is the sequence of its 7-bit groups, lowest first,     *)
(* without high zero groups: <<>> is 0, <<72, 1>> is 200, and the largest  *)
(* value has ten groups, the tenth being 1 (bit 63).                       *)
(***************************************************************************)
RECURSIVE U64(_)
U64(n) == IF n = 0 THEN <<>> ELSE <<n % 128>> \o U64(n \div 128)

\* int(v), for a value that fits an int
RECURSIVE ToInt(_)
ToInt(v) == IF v = <<>> THEN 0 ELSE Head(v) + 128 * ToInt(Tail(v))

RECURSIVE Normalize(_)
Normalize(x) ==
    IF x # <<>> /\ x[Len(x)] = 0
    THEN Normalize(SubSeq(x, 1, Len(x) - 1))
    ELSE x

\* a < b
Lt(a, b) ==
    \/ Len(a) < Len(b)
    \/ /\ Len(a) = Len(b)
       /\ \E k \in 1..Len(a) :
             a[k] < b[k] /\ \A j \in (k + 1)..Len(a) : a[j] = b[j]

MaxUint64 == <<127, 127, 127, 127, 127, 127, 127, 127, 127, 1>>

\* The longest slice of uint64 the runtime of a 64-bit build grants
\* (maxAlloc / 8 = 2^45 elements): make with a longer length panics.
MaxSliceLen == <<0, 0, 0, 0, 0, 0, 8>>

ByteAlphabet == {0, 1, 2, 3, 128}
DbfIds == {U64(1), U64(200)}
Counts == {U64(0), U64(1), U64(2), U64(3), U64(4)}
Formats == {U64(FormatWild), U64(FormatStandard)}
\* hero counts beyond MaxSliceLen: 2^46 and the largest uint64
HugeLengths == {<<0, 0, 0, 0, 0, 0, 16>>, MaxUint64}

NoErr == "none"
EmptyDeck == [format |-> <<>>, heroes |-> <<>>, cards |-> <<>>]
NoDecode == [status |-> "none", err |-> NoErr, deck |-> EmptyDeck]
NoEncode == [str |-> <<>>, err |-> NoErr, id |-> <<>>, staged |-> <<>>]
NoRead == [vals |-> <<>>, err |-> NoErr, pos |-> 0]

(***************************************************************************)
(* varint.go: the varint reader (binary.ReadUvarint on the byte reader).   *)
(* x holds the groups read so far, i is their number.                      *)
(***************************************************************************)
RECURSIVE ReadUvarintFrom(_, _, _, _)
ReadUvarintFrom(s, pos, i, x) ==
    IF i >= MaxVarintLen64
    THEN [val |-> Normalize(x), err |-> "Overflow", pos |-> pos]
    ELSE IF pos > Len(s)
    THEN [val |-> Normalize(x),
          err |-> IF i > 0 THEN "UnexpectedEOF" ELSE "EOF", pos |-> pos]
    ELSE LET b == s[pos] IN
         IF b < 128
         THEN IF i = MaxVarintLen64 - 1 /\ b > 1
              THEN [val |-> Normalize(x), err |-> "Overflow", pos |-> pos + 1]
              ELSE [val |-> Normalize(Append(x, b)), err |-> NoErr,
                    pos |-> pos + 1]
         ELSE ReadUvarintFrom(s, pos + 1, i + 1, Append(x, b % 128))

\* a reader that takes the end of the stream for the value 0
ReadAtEofZero(s, pos) ==
    IF pos > Len(s)
    THEN [val |-> <<>>, err |-> NoErr, pos |-> pos]
    ELSE ReadUvarintFrom(s, pos, 0, <<>>)

\* varintReader.Read: one varint at the cursor pos
Read(s, pos) == ReadUvarintFrom(s, pos, 0, <<>>)

\* varintReader.ReadMany: len(values) = n varints, stopping at the first
\* error
RECURSIVE ReadManyFrom(_, _, _, _)
ReadManyFrom(s, pos, n, values) ==
    IF n = 0
    THEN [vals |-> values, err |-> NoErr, pos |-> pos]
    ELSE LET r == Read(s, pos) IN
         IF r.err # NoErr
         THEN [vals |-> values, err |-> r.err, pos |-> r.pos]
         ELSE ReadManyFrom(s, r.pos, n - 1, Append(values, r.val))

ReadMany(s, pos, n) == ReadManyFrom(s, pos, n, <<>>)

(***************************************************************************)
(* varint.go: the varint writer (binary.PutUvarint into the buffer).       *)
(***************************************************************************)
RECURSIVE PutUvarint(_)
PutUvarint(v) ==
    IF Len(v) >= 2
    THEN <<v[1] + 128>> \o PutUvarint(Tail(v))
    ELSE <<IF v = <<>> THEN 0 ELSE v[1]>>

\* make([]byte, n)
MakeBytes(n) == [k \in 1..n |-> 0]

\* binary.PutUvarint(buf[total:], value): the bytes of value over
\* buf[total], buf[total+1], ...; n is the number of bytes put
PutAt(buf, total, v) ==
    LET b == PutUvarint(v) IN
    [buf |-> [k \in 1..Len(buf) |->
                 IF k > total /\ k <= total + Len(b)
                 THEN b[k - total] ELSE buf[k]],
     n |-> Len(b)]

\* varintWriter.Write: buf[:n] of a buffer of MaxVarintLen64 bytes
Write(v) ==
    LET p == PutAt(MakeBytes(MaxVarintLen64), 0, v)
    IN SubSeq(p.buf, 1, p.n)

\* the loop of varintWriter.WriteMany from values[i] on
RECURSIVE WriteManyFrom(_, _, _, _)
WriteManyFrom(vals, i, buf, total) ==
    IF i > Len(vals)
    THEN [buf |-> buf, total |-> total]
    ELSE LET p == PutAt(buf, total, vals[i])
         IN WriteManyFrom(vals, i + 1, p.buf, total + p.n)

\* a writer that hands on the whole buffer
WriteManyWholeBuf(vals) ==
    WriteManyFrom(vals, 1, MakeBytes(Len(vals) * MaxVarintLen64), 0).buf

\* varintWriter.WriteMany: buf[:total] of a buffer of
\* len(values)*MaxVarintLen64 bytes
WriteMany(vals) ==
    LET w == WriteManyFrom(vals, 1,
                           MakeBytes(Len(vals) * MaxVarintLen64), 0)
    IN SubSeq(w.buf, 1, w.total)

(***************************************************************************)
(* sort.Slice(x, less).  On a slice of at most 12 elements the sort is an  *)
(* insertion sort: each element in turn moves left past the elements it is *)
(* less than, so it ends behind every element that is less than it or that *)
(* less does not separate from it and that stood before it.                *)
(***************************************************************************)
PermSeqs(x) ==
    {[i \in 1..Len(x) |-> x[p[i]]] : p \in Permutations(1..Len(x))}

\* a sort that leaves the slice as it is
SortSliceNone(x, less) == x

\* less is the closure over the slice's indexes, as a function of <<i, j>>
SortSlice(x, less) ==
    LET rank(i) ==
            1 + Cardinality({j \in 1..Len(x) :
                    less[j, i] \/ (~less[i, j] /\ j < i)})
    IN [r \in 1..Len(x) |-> x[CHOOSE i \in 1..Len(x) : rank(i) = r]]

LessValue(heroes) ==
    [i \in 1..Len(heroes), j \in 1..Len(heroes) |-> Lt(heroes[i], heroes[j])]
LessDbfID(cards) ==
    [i \in 1..Len(cards), j \in 1..Len(cards) |-> Lt(cards[i][1], cards[j][1])]

(***************************************************************************)
(* Decode.                                                                 *)
(***************************************************************************)
DecodeFail(err) == [status |-> "err", err |-> err, deck |-> EmptyDeck]

\* make([]uint64, length) with a length the runtime refuses: a run-time
\* panic (makeslice: len out of range) leaves Decode, nothing is returned
DecodePanic == [status |-> "panic", err |-> "makeslice", deck |-> EmptyDeck]

\* a validation that looks at the version first
ValidateHeaderVersionFirst(header) ==
    IF header[2] # U64(Version) THEN "UnsupportedVersion"
    ELSE IF header[1] # U64(0) THEN "InvalidReserved"
    ELSE NoErr

ValidateHeader(header) ==
    IF header[1] # U64(0) THEN "InvalidReserved"
    ELSE IF header[2] # U64(Version) THEN "UnsupportedVersion"
    ELSE NoErr

\* the hero loop, for i := uint64(0); i < length; i++: one varint.Read
\* each, the first error ends Decode
RECURSIVE ReadHeroes(_, _, _, _, _)
ReadHeroes(s, pos, i, length, heroes) ==
    IF ~Lt(U64(i), length)
    THEN [vals |-> heroes, err |-> NoErr, pos |-> pos]
    ELSE LET hero == Read(s, pos) IN
         IF hero.err # NoErr
         THEN [vals |-> heroes, err |-> hero.err, pos |-> hero.pos]
         ELSE ReadHeroes(s, hero.pos, i + 1, length, Append(heroes, hero.val))

\* a count that is 1 in every group
ImplicitCountOne(group) == U64(1)

\* count := uint64(group)
ImplicitCount(group) == U64(group)

\* the entry loop of one group, for i := uint64(0); i < length; i++
RECURSIVE ReadEntries(_, _, _, _, _, _)
ReadEntries(s, pos, group, i, length, cards) ==
    IF ~Lt(U64(i), length)
    THEN [cards |-> cards, err |-> NoErr, pos |-> pos]
    ELSE LET dbfID == Read(s, pos) IN
         IF dbfID.err # NoErr
         THEN [cards |-> cards, err |-> dbfID.err, pos |-> dbfID.pos]
         ELSE LET count == IF group >= 3
                           THEN Read(s, dbfID.pos)
                           ELSE [val |-> ImplicitCount(group), err |-> NoErr,
                                 pos |-> dbfID.pos]
              IN IF count.err # NoErr
                 THEN [cards |-> cards, err |-> count.err, pos |-> count.pos]
                 ELSE ReadEntries(s, count.pos, group, i + 1, length,
                                  Append(cards, <<dbfID.val, count.val>>))

\* one pass of the group loop: the group's length, then its entries,
\* appended to cards
ReadGroup(s, pos, group, cards) ==
    LET length == Read(s, pos) IN
    IF length.err # NoErr
    THEN [cards |-> cards, err |-> length.err, pos |-> length.pos]
    ELSE ReadEntries(s, length.pos, group, 0, length.val, cards)

\* for group := 1; group <= 3; group++
RECURSIVE ReadGroups(_, _, _, _)
ReadGroups(s, pos, group, cards) ==
    IF group > 3
    THEN [cards |-> cards, err |-> NoErr, pos |-> pos]
    ELSE LET g == ReadGroup(s, pos, group, cards) IN
         IF g.err # NoErr THEN g
         ELSE ReadGroups(s, g.pos, group + 1, g.cards)

\* Decode on the byte stream s
Decode(s) ==
    LET header == ReadMany(s, 1, 4) IN
    IF header.err # NoErr THEN DecodeFail(header.err)
    ELSE IF ValidateHeader(header.vals) # NoErr
    THEN DecodeFail(ValidateHeader(header.vals))
    ELSE LET format == header.vals[3]
             length == header.vals[4]
         IN IF Lt(MaxSliceLen, length) THEN DecodePanic
            ELSE LET hr == ReadHeroes(s, header.pos, 0, length, <<>>) IN
                 IF hr.err # NoErr THEN DecodeFail(hr.err)
                 ELSE LET gr == ReadGroups(s, hr.pos, 1, <<>>) IN
                      IF gr.err # NoErr THEN DecodeFail(gr.err)
                      ELSE [status |-> "ok", err |-> NoErr,
                            deck |-> [format |-> format,
                                      heroes |-> SortSlice(hr.vals, LessValue(hr.vals)),
                                      cards |-> SortSlice(gr.cards, LessDbfID(gr.cards))]]

(***************************************************************************)
(* Encode.                                                                 *)
(***************************************************************************)
\* a failure that hands out what was staged in the buffer
EncodeFailPartial(err, id, staged) ==
    [str |-> staged, err |-> err, id |-> id, staged |-> staged]

\* return "", err: the bytes already written to the buffer are dropped
EncodeFail(err, id, staged) ==
    [str |-> <<>>, err |-> err, id |-> id, staged |-> staged]

\* a partition that sends count 2 to the explicit-count group
GroupIDLow(count) == IF Lt(count, U64(2)) THEN ToInt(count) ELSE 3

\* groupID := 3; if count < 3 { groupID = int(count) }
GroupID(count) == IF Lt(count, U64(3)) THEN ToInt(count) ELSE 3

\* the gather loop: the first card with count < 1 ends it with an error,
\* every other card is appended to the group of its count
RECURSIVE Gather(_, _, _)
Gather(cards, i, groups) ==
    IF i > Len(cards)
    THEN [err |-> NoErr, id |-> <<>>, groups |-> groups]
    ELSE LET dbfID == cards[i][1]
             count == cards[i][2]
         IN IF Lt(count, U64(1))
            THEN [err |-> "InvalidCardCount", id |-> dbfID, groups |-> groups]
            ELSE Gather(cards, i + 1,
                        [groups EXCEPT ![GroupID(count)] = Append(@, cards[i])])

\* a writer that gives an explicit count to group 2 as well
WriteCardExplicit(groupID, card) ==
    Write(card[1]) \o (IF groupID >= 2 THEN Write(card[2]) ELSE <<>>)

WriteCard(groupID, card) ==
    Write(card[1]) \o (IF groupID = 3 THEN Write(card[2]) ELSE <<>>)

RECURSIVE WriteCards(_, _)
WriteCards(groupID, group) ==
    IF group = <<>> THEN <<>>
    ELSE WriteCard(groupID, Head(group)) \o WriteCards(groupID, Tail(group))

\* one pass of the write loop, for a group already sorted
WriteGroup(groupID, group) ==
    Write(U64(Len(group))) \o WriteCards(groupID, group)

\* Encode on the Deck d.  staged is what the buffer holds when Encode
\* returns: the header and the heroes are written before the cards are
\* looked at.
Encode(d) ==
    LET values == <<U64(0), U64(Version), d.format, U64(Len(d.heroes))>>
        heroes == SortSlice(d.heroes, LessValue(d.heroes))
        head == WriteMany(values) \o WriteMany(heroes)
        g == Gather(d.cards, 1, <<<<>>, <<>>, <<>>>>)
    IN IF g.err # NoErr
       THEN EncodeFail(g.err, g.id, head)
       ELSE LET out == head
                         \o WriteGroup(1, SortSlice(g.groups[1], LessDbfID(g.groups[1])))
                         \o WriteGroup(2, SortSlice(g.groups[2], LessDbfID(g.groups[2])))
                         \o WriteGroup(3, SortSlice(g.groups[3], LessDbfID(g.groups[3])))
            IN [str |-> out, err |-> NoErr, id |-> <<>>, staged |-> out]

(***************************************************************************)
(* Inputs.                                                                 *)
(***************************************************************************)
SeqsUpTo(S, n) == UNION {[1..k -> S] : k \in 0..n}

\* no varint of the stream is longer than MaxVarintBytes
ShortVarints(s) ==
    ~\E i \in 1..Len(s) :
        \A k \in 0..(MaxVarintBytes - 1) : i + k <= Len(s) /\ s[i + k] >= 128

Cards == DbfIds \X Counts

Decks ==
    {[format |-> f, heroes |-> h, cards |-> c] :
        f \in Formats, h \in SeqsUpTo(DbfIds, MaxHeroes),
        c \in SeqsUpTo(Cards, MaxCards)}

\* arbitrary short streams; arbitrary tails of a well-formed start of the
\* header; the streams Encode writes; the streams of a writer that keeps
\* the order it is given and puts every count it has no group for (0 too)
\* in group 3; and streams whose hero count no slice can have
RawStreams == {s \in SeqsUpTo(ByteAlphabet, MaxRawLen) : ShortVarints(s)}
BodyStreams ==
    {<<0, Version, FormatStandard>> \o b :
        b \in {s \in SeqsUpTo(ByteAlphabet, MaxBodyLen) : ShortVarints(s)}}
EncodedStreams == {Encode(d).str : d \in Decks}
InGroup1(c) == c[2] = U64(1)
InGroup2(c) == c[2] = U64(2)
InGroup3(c) == c[2] \notin {U64(1), U64(2)}
UnsortedStreams ==
    {WriteMany(<<U64(0), U64(Version), d.format, U64(Len(d.heroes))>>)
        \o WriteMany(d.heroes)
        \o WriteGroup(1, SelectSeq(d.cards, InGroup1))
        \o WriteGroup(2, SelectSeq(d.cards, InGroup2))
        \o WriteGroup(3, SelectSeq(d.cards, InGroup3)) : d \in Decks}
HugeCountStreams ==
    {<<0, Version, FormatStandard>> \o PutUvarint(n) \o tail :
        n \in HugeLengths, tail \in SeqsUpTo(ByteAlphabet, MaxTailLen)}

Streams ==
    RawStreams \cup BodyStreams \cup EncodedStreams \cup UnsortedStreams
        \cup HugeCountStreams

(***************************************************************************)
(* A caller of the package: it decodes a deckstring it was given and may   *)
(* encode the Deck it got (SpecDecode); or it encodes a Deck it built and  *)
(* may decode the result, decode a strict prefix of it, encode what it     *)
(* decoded, or encode the same Deck in another order (SpecEncode).         *)
(***************************************************************************)
InitDecode ==
    /\ pc = "stream"
    /\ stream \in Streams
    /\ deck = EmptyDeck
    /\ dec = NoDecode
    /\ enc = NoEncode
    /\ deck2 = EmptyDeck
    /\ enc2 = NoEncode
    /\ vs = <<>>
    /\ pieces = <<>>
    /\ rd = NoRead

InitEncode ==
    /\ pc = "deck"
    /\ deck \in Decks
    /\ stream = <<>>
    /\ dec = NoDecode
    /\ enc = NoEncode
    /\ deck2 = EmptyDeck
    /\ enc2 = NoEncode
    /\ vs = <<>>
    /\ pieces = <<>>
    /\ rd = NoRead

\* Decode(stream)
DecodeStream ==
    /\ pc = "stream"
    /\ dec' = Decode(stream)
    /\ pc' = "decoded"
    /\ UNCHANGED <<stream, deck, enc, deck2, enc2, vs, pieces, rd>>

\* Encode(the Deck that Decode returned)
EncodeDecoded ==
    /\ pc \in {"decoded", "redecoded"}
    /\ dec.status = "ok"
    /\ enc' = Encode(dec.deck)
    /\ pc' = "reencoded"
    /\ UNCHANGED <<stream, deck, dec, deck2, enc2, vs, pieces, rd>>

\* Encode(deck)
EncodeDeck ==
    /\ pc = "deck"
    /\ enc' = Encode(deck)
    /\ pc' = "encoded"
    /\ UNCHANGED <<stream, deck, dec, deck2, enc2, vs, pieces, rd>>

\* Decode(the deckstring that Encode returned)
DecodeEncoded ==
    /\ pc = "encoded"
    /\ enc.err = NoErr
    /\ stream' = enc.str
    /\ dec' = Decode(enc.str)
    /\ pc' = "redecoded"
    /\ UNCHANGED <<deck, enc, deck2, enc2, vs, pieces, rd>>

\* Decode(a strict prefix of the stream that Encode wrote)
DecodePrefix ==
    /\ pc = "encoded"
    /\ enc.err = NoErr
    /\ \E k \in 0..(Len(enc.str) - 1) :
          /\ stream' = SubSeq(enc.str, 1, k)
          /\ dec' = Decode(SubSeq(enc.str, 1, k))
    /\ pc' = "prefixdecoded"
    /\ UNCHANGED <<deck, enc, deck2, enc2, vs, pieces, rd>>

\* Encode(deck with its heroes or its cards in another order)
EncodePermuted ==
    /\ pc = "encoded"
    /\ \E h \in PermSeqs(deck.heroes), c \in PermSeqs(deck.cards) :
          /\ h = deck.heroes \/ c = deck.cards
          /\ deck2' = [deck EXCEPT !.heroes = h, !.cards = c]
          /\ enc2' = Encode([deck EXCEPT !.heroes = h, !.cards = c])
    /\ pc' = "encoded2"
    /\ UNCHANGED <<stream, deck, dec, enc, vs, pieces, rd>>

NextDecode == DecodeStream \/ EncodeDecoded

NextEncode ==
    \/ EncodeDeck
    \/ DecodeEncoded
    \/ EncodeDecoded
    \/ DecodePrefix
    \/ EncodePermuted

SpecDecode == InitDecode /\ [][NextDecode]_vars

SpecEncode == InitEncode /\ [][NextEncode]_vars

(***************************************************************************)
(* A caller of the varint stream alone: it writes a sequence of values     *)
(* with one WriteMany, writes the same values one Write at a time, and     *)
(* reads len(vs) values back from the bytes of the WriteMany.              *)
(***************************************************************************)
VarintValues ==
    {U64(0), U64(1), U64(127), U64(128), U64(200), U64(16384),
     <<0, 0, 0, 0, 16>>, <<0, 0, 0, 0, 0, 0, 0, 0, 0, 1>>, MaxUint64}

InitVarint ==
    /\ pc = "values"
    /\ vs \in SeqsUpTo(VarintValues, MaxValues)
    /\ stream = <<>>
    /\ pieces = <<>>
    /\ rd = NoRead
    /\ deck = EmptyDeck
    /\ dec = NoDecode
    /\ enc = NoEncode
    /\ deck2 = EmptyDeck
    /\ enc2 = NoEncode

\* w.WriteMany(vs)
WriteManyValues ==
    /\ pc = "values"
    /\ stream' = WriteMany(vs)
    /\ pc' = "written"
    /\ UNCHANGED <<deck, dec, enc, deck2, enc2, vs, pieces, rd>>

\* w.Write(v) for the next value of vs, into a sink of its own
WriteValue ==
    /\ pc \in {"written", "read"}
    /\ Len(pieces) < Len(vs)
    /\ pieces' = Append(pieces, Write(vs[Len(pieces) + 1]))
    /\ UNCHANGED <<pc, stream, deck, dec, enc, deck2, enc2, vs, rd>>

\* r.ReadMany(make([]uint64, len(vs))) over the bytes of the WriteMany
ReadManyValues ==
    /\ pc = "written"
    /\ rd' = ReadMany(stream, 1, Len(vs))
    /\ pc' = "read"
    /\ UNCHANGED <<stream, deck, dec, enc, deck2, enc2, vs, pieces>>

NextVarint == WriteManyValues \/ WriteValue \/ ReadManyValues

SpecVarint == InitVarint /\ [][NextVarint]_vars

(***************************************************************************)
(* Vocabulary of the properties.                                           *)
(***************************************************************************)
IsSorted(x) == \A i \in 1..(Len(x) - 1) : ~Lt(x[i + 1], x[i])
IsSortedByDbfID(x) == \A i \in 1..(Len(x) - 1) : ~Lt(x[i + 1][1], x[i][1])

Range(x) == {x[i] : i \in 1..Len(x)}
Occurrences(x, e) == Cardinality({i \in 1..Len(x) : x[i] = e})
SameBag(x, y) ==
    /\ Len(x) = Len(y)
    /\ \A e \in Range(x) \cup Range(y) : Occurrences(x, e) = Occurrences(y, e)

AllCountsValid(d) == \A i \in 1..Len(d.cards) : d.cards[i][2] # U64(0)
Truncated == {"EOF", "UnexpectedEOF"}

\* The stream as it lies on the wire, read field by field (for a stream
\* that Decode accepted): the header, the heroes and the three groups in
\* wire order, and the cursor after the third group.
WireHeader(s) == ReadMany(s, 1, 4)
WireHeroes(s) ==
    ReadHeroes(s, WireHeader(s).pos, 0, WireHeader(s).vals[4], <<>>)
WireGroup1(s) == ReadGroup(s, WireHeroes(s).pos, 1, <<>>)
WireGroup2(s) == ReadGroup(s, WireGroup1(s).pos, 2, <<>>)
WireGroup3(s) == ReadGroup(s, WireGroup2(s).pos, 3, <<>>)

\* every varint of a fully read stream is in its shortest form: none ends
\* in a zero byte that follows a continuation byte
MinimalVarints(s) == \A i \in 2..Len(s) : ~(s[i] = 0 /\ s[i - 1] >= 128)

\* the canonical form of an accepted stream
Canonical(s) ==
    /\ MinimalVarints(s)
    /\ IsSorted(WireHeroes(s).vals)
    /\ IsSortedByDbfID(WireGroup1(s).cards)
    /\ IsSortedByDbfID(WireGroup2(s).cards)
    /\ IsSortedByDbfID(WireGroup3(s).cards)
    /\ \A c \in Range(WireGroup3(s).cards) : ~Lt(c[2], U64(3))
    /\ \A c, e \in Range(WireGroup3(s).cards) : c[1] = e[1] => c[2] = e[2]
    /\ WireGroup3(s).pos = Len(s) + 1

(***************************************************************************)
(* C1 as stated: for every stream that Decode accepts, Encode of the       *)
(* decoded Deck returns exactly that stream (here for the Decks that       *)
(* Encode takes: the ones of C4, with a count 0, are left to C4).          *)
(***************************************************************************)
C1_RoundTripAnyAccepted ==
    pc = "reencoded" /\ enc.err = NoErr => enc.str = stream

(***************************************************************************)
(* C1 as amended: for every accepted stream in canonical form (shortest    *)
(* varints, heroes and each group in non-decreasing order, every explicit  *)
(* count >= 3, equal identifiers of group 3 with equal counts, nothing     *)
(* after the third group), Encode of the decoded Deck succeeds and returns *)
(* exactly that stream.                                                    *)
(***************************************************************************)
C1_RoundTripCanonical ==
    pc = "reencoded" /\ Canonical(stream)
        => enc.err = NoErr /\ enc.str = stream

C1_Witness ==
    /\ pc = "reencoded"
    /\ Canonical(stream)
    /\ enc.str = stream
    /\ Len(dec.deck.heroes) >= 2
    /\ \E c, e \in Range(dec.deck.cards) : c[2] = U64(2) /\ ~Lt(e[2], U64(3))

(***************************************************************************)
(* C2: for every Deck with all counts >= 1, Encode succeeds, and Decode of *)
(* what it returned succeeds and returns the same format, the heroes       *)
(* sorted ascending and the cards sorted ascending by identifier, the same *)
(* multiset of (identifier, count) pairs.                                  *)
(***************************************************************************)
C2_EncodeThenDecode ==
    /\ pc = "encoded" /\ AllCountsValid(deck) => enc.err = NoErr
    /\ pc = "redecoded" =>
          /\ dec.status = "ok"
          /\ dec.deck.format = deck.format
          /\ IsSorted(dec.deck.heroes)
          /\ SameBag(dec.deck.heroes, deck.heroes)
          /\ IsSortedByDbfID(dec.deck.cards)
          /\ SameBag(dec.deck.cards, deck.cards)

C2_Witness ==
    /\ pc = "redecoded"
    /\ dec.status = "ok"
    /\ ~IsSorted(deck.heroes)
    /\ ~IsSortedByDbfID(deck.cards)
    /\ \E c, e \in Range(deck.cards) :
          c[1] = U64(200) /\ c[2] = U64(2) /\ ~Lt(e[2], U64(3))

(***************************************************************************)
(* C3 as stated: two Decks with the same format whose heroes and cards are *)
(* permutations of each other (all counts >= 1) encode to the identical    *)
(* string.                                                                 *)
(***************************************************************************)
C3_OrderIndependent ==
    pc = "encoded2" /\ AllCountsValid(deck)
        => enc2.err = NoErr /\ enc2.str = enc.str

(***************************************************************************)
(* C4 as stated: every Deck that a successful Decode returns has count     *)
(* >= 1 in every cards entry.                                              *)
(***************************************************************************)
C4_NoZeroCount ==
    dec.status = "ok" => \A c \in Range(dec.deck.cards) : ~Lt(c[2], U64(1))

(***************************************************************************)
(* C5: for every stream that Decode accepts, the heroes of the returned    *)
(* Deck are in non-decreasing order by value and its cards, merged from    *)
(* the three groups, in non-decreasing order by identifier.                *)
(***************************************************************************)
C5_DecodingsCanonical ==
    dec.status = "ok"
        => IsSorted(dec.deck.heroes) /\ IsSortedByDbfID(dec.deck.cards)

C5_Witness ==
    /\ pc = "decoded"
    /\ dec.status = "ok"
    /\ ~IsSorted(WireHeroes(stream).vals)
    /\ ~IsSortedByDbfID(ReadGroups(stream, WireHeroes(stream).pos, 1, <<>>).cards)

(***************************************************************************)
(* C6 as stated: if the first varint of the stream is non-zero Decode      *)
(* fails with InvalidReserved, otherwise if the second varint is not the   *)
(* supported version Decode fails with UnsupportedVersion, whatever        *)
(* follows, also when the stream ends before the four header varints.      *)
(***************************************************************************)
C6_HeaderChecksFirst ==
    pc = "decoded" =>
        LET reserved == Read(stream, 1)
            version == Read(stream, reserved.pos)
        IN /\ reserved.err = NoErr /\ reserved.val # U64(0)
                => dec = DecodeFail("InvalidReserved")
           /\ reserved.err = NoErr /\ reserved.val = U64(0)
                /\ version.err = NoErr /\ version.val # U64(Version)
                => dec = DecodeFail("UnsupportedVersion")

(***************************************************************************)
(* C6 as amended: for every stream whose four header varints can be read,  *)
(* a non-zero reserved makes Decode fail with InvalidReserved, otherwise a *)
(* version other than 1 makes it fail with UnsupportedVersion, whatever    *)
(* follows the header; a stream whose header cannot be read fails with the *)
(* error of that read, whatever its reserved and version fields hold.      *)
(***************************************************************************)
C6_HeaderChecksAfterRead ==
    pc = "decoded" =>
        LET header == WireHeader(stream) IN
        /\ header.err # NoErr => dec = DecodeFail(header.err)
        /\ header.err = NoErr /\ header.vals[1] # U64(0)
              => dec = DecodeFail("InvalidReserved")
        /\ header.err = NoErr /\ header.vals[1] = U64(0)
              /\ header.vals[2] # U64(Version)
              => dec = DecodeFail("UnsupportedVersion")

C6_Witness ==
    /\ pc = "decoded"
    /\ WireHeader(stream).err = NoErr
    /\ WireHeader(stream).vals[1] # U64(0)
    /\ WireHeader(stream).vals[2] # U64(Version)
    /\ WireHeader(stream).pos <= Len(stream)
    /\ dec.err = "InvalidReserved"

(***************************************************************************)
(* C7: Encode fails if and only if some card has count 0; the error is     *)
(* InvalidCardCount naming the first card in input order whose count is 0, *)
(* and the returned string is empty although the header and the heroes     *)
(* were already written.                                                   *)
(***************************************************************************)
C7_InvalidCardCount ==
    pc = "encoded" =>
        /\ enc.err # NoErr <=> \E i \in 1..Len(deck.cards) : deck.cards[i][2] = U64(0)
        /\ enc.err # NoErr =>
              /\ enc.err = "InvalidCardCount"
              /\ \E i \in 1..Len(deck.cards) :
                    /\ deck.cards[i][2] = U64(0)
                    /\ \A j \in 1..(i - 1) : deck.cards[j][2] # U64(0)
                    /\ enc.id = deck.cards[i][1]
              /\ enc.str = <<>>

C7_Witness ==
    /\ pc = "encoded"
    /\ enc.err = "InvalidCardCount"
    /\ enc.str = <<>>
    /\ Len(enc.staged) > 4
    /\ Len(deck.cards) = 2
    /\ deck.cards[1][2] = U64(0) /\ deck.cards[2][2] = U64(0)
    /\ deck.cards[1][1] # deck.cards[2][1]

(***************************************************************************)
(* C8: for every Deck with all counts >= 1, Decode of any strict prefix of *)
(* the stream that Encode wrote (the empty one too) fails with             *)
(* TruncatedStream.                                                        *)
(***************************************************************************)
C8_PrefixTruncated ==
    pc = "prefixdecoded" => dec.status = "err" /\ dec.err \in Truncated

C8_Witness ==
    /\ pc = "prefixdecoded"
    /\ dec.err = "UnexpectedEOF"
    /\ Len(stream) > 4
    /\ Len(deck.cards) = 2

(***************************************************************************)
(* C9 as stated: for every input stream Decode returns a Deck or an error  *)
(* value to its caller.                                                    *)
(***************************************************************************)
C9_NoFatalFailure ==
    pc = "decoded" => dec.status \in {"ok", "err"}

(***************************************************************************)
(* C10: for every Deck with all counts >= 1, the stream that Encode writes *)
(* after the heroes is: the number of cards with count 1 and their         *)
(* identifiers; the number of cards with count 2 and their identifiers;    *)
(* the number of cards with count >= 3 and their (identifier, count)       *)
(* pairs; each group in ascending identifier order, and nothing else.      *)
(***************************************************************************)
RECURSIVE ReadAll(_, _)
ReadAll(s, pos) ==
    IF pos > Len(s) THEN <<>>
    ELSE <<Read(s, pos).val>> \o ReadAll(s, Read(s, pos).pos)

WithCount1(c) == c[2] = U64(1)
WithCount2(c) == c[2] = U64(2)
WithCount3Up(c) == ~Lt(c[2], U64(3))
DbfIDsOf(cards) == [i \in 1..Len(cards) |-> cards[i][1]]

C10_GroupPartition ==
    pc = "encoded" /\ enc.err = NoErr =>
        LET vals == ReadAll(enc.str, 1)
            h == Len(deck.heroes)
            c1 == SelectSeq(deck.cards, WithCount1)
            c2 == SelectSeq(deck.cards, WithCount2)
            c3 == SelectSeq(deck.cards, WithCount3Up)
            at1 == 5 + h
            at2 == at1 + 1 + Len(c1)
            at3 == at2 + 1 + Len(c2)
            g1 == SubSeq(vals, at1 + 1, at1 + Len(c1))
            g2 == SubSeq(vals, at2 + 1, at2 + Len(c2))
            g3 == [k \in 1..Len(c3) |-> <<vals[at3 + 2 * k - 1], vals[at3 + 2 * k]>>]
        IN /\ Len(vals) = at3 + 2 * Len(c3)
           /\ vals[at1] = U64(Len(c1))
           /\ IsSorted(g1) /\ SameBag(g1, DbfIDsOf(c1))
           /\ vals[at2] = U64(Len(c2))
           /\ IsSorted(g2) /\ SameBag(g2, DbfIDsOf(c2))
           /\ vals[at3] = U64(Len(c3))
           /\ IsSortedByDbfID(g3) /\ SameBag(g3, c3)

C10_Witness ==
    /\ pc = "encoded"
    /\ enc.err = NoErr
    /\ Len(deck.heroes) = 2
    /\ deck.cards = <<<<U64(200), U64(3)>>, <<U64(1), U64(2)>>>>

(***************************************************************************)
(* C11  Varint round trip.  For every sequence vs of uint64 values the     *)
(* bytes of WriteMany(vs) are the bytes of Write(v) for each v of vs in    *)
(* order, one after the other; the bytes of a Write(v) are the 7-bit       *)
(* groups of v from the lowest up, the high bit set on every byte but the  *)
(* last, the value 0 as the one byte 0; and ReadMany of len(vs) values     *)
(* over the bytes of the WriteMany returns vs without error, the cursor    *)
(* one past the last byte.                                                 *)
(***************************************************************************)
RECURSIVE Concat(_)
Concat(ss) == IF ss = <<>> THEN <<>> ELSE Head(ss) \o Concat(Tail(ss))

LittleEndianGroups(b, v) ==
    /\ Len(b) >= 1
    /\ \A k \in 1..(Len(b) - 1) : b[k] \in 128..255
    /\ b[Len(b)] \in 0..127
    /\ Normalize([k \in 1..Len(b) |-> b[k] % 128]) = v
    /\ v = <<>> => b = <<0>>

C11_VarintRoundTrip ==
    /\ \A i \in 1..Len(pieces) : LittleEndianGroups(pieces[i], vs[i])
    /\ pc \in {"written", "read"} /\ Len(pieces) = Len(vs)
          => stream = Concat(pieces)
    /\ pc = "read"
          => /\ rd.err = NoErr
             /\ rd.vals = vs
             /\ rd.pos = Len(stream) + 1

C11_Witness ==
    /\ pc = "read"
    /\ vs = <<MaxUint64, U64(0), U64(200)>>
    /\ Len(pieces) = 3
    /\ stream = <<255, 255, 255, 255, 255, 255, 255, 255, 255, 1, 0, 200, 1>>
    /\ rd.vals = vs

====
